---------------------------- MODULE Spec2Model ----------------------------
(***************************************************************************)
(* The DatenLord SDK binding contract: the C demo program                  *)
(* (examples/c/test_datenlord_sdk.c) and the pybind11 module               *)
(* (bindings.cpp) as consumers of the SDK declared in datenlord.h.         *)
(* The SDK library itself is not part of the sources; its operations are   *)
(* modelled from the specification's operation table (the Sdk* operators). *)
(***************************************************************************)
EXTENDS Integers, Sequences, FiniteSets, TLC

VARIABLES consumer, sdk, releases, fs, local, created, last,
          errEv, leak, rd, pc, err, read_bytes, exists_result

vars == <<consumer, sdk, releases, fs, local, created, last,
          errEv, leak, rd, pc, err, read_bytes, exists_result>>

-----------------------------------------------------------------------------
(* Bounds and data                                                          *)

MaxLen == 1

Bytes == {0, 1}

Contents == UNION {[1..n -> Bytes] : n \in 0..MaxLen}

ROOT_ID == 1

NULL == <<>>

Min(a, b) == IF a < b THEN a ELSE b

Dir == <<"d">>

File == <<"d", "f">>

Other == <<"e">>

Paths == {Dir, File, Other}

LocalPath == <<"local">>

LocalPaths == {LocalPath}

Parent(p) == SubSeq(p, 1, Len(p) - 1)

IsPrefix(a, b) == Len(a) <= Len(b) /\ SubSeq(b, 1, Len(a)) = a

Absent == [kind |-> "absent", data |-> <<>>]

DirNode == [kind |-> "dir", data |-> <<>>]

FileNode(c) == [kind |-> "file", data |-> c]

EmptyFS == [p \in Paths |-> Absent]

-----------------------------------------------------------------------------
(* Error records: struct datenlord_error { code; message {data, len} }      *)

ErrorKinds == <<"ConfigError", "ConnectionError", "NotFound", "AlreadyExists",
                "NotEmpty", "PermissionDenied", "IOError", "InvalidArgument">>

CodeOf(kind) == CHOOSE i \in 1..Len(ErrorKinds) : ErrorKinds[i] = kind

MessageText(kind) ==
    CASE kind = "ConfigError"      -> <<"b", "a", "d", " ", "c", "o", "n", "f", "i", "g">>
      [] kind = "ConnectionError"  -> <<"n", "o", " ", "s", "e", "s", "s", "i", "o", "n">>
      [] kind = "NotFound"         -> <<"n", "o", "t", " ", "f", "o", "u", "n", "d">>
      [] kind = "AlreadyExists"    -> <<"e", "x", "i", "s", "t", "s">>
      [] kind = "NotEmpty"         -> <<"n", "o", "t", " ", "e", "m", "p", "t", "y">>
      [] kind = "PermissionDenied" -> <<"d", "e", "n", "i", "e", "d">>
      [] kind = "IOError"          -> <<"i", "o">>
      [] OTHER                     -> <<"i", "n", "v", "a", "l", "i", "d">>

datenlord_bytes(d, n) == [data |-> d, len |-> n]

datenlord_error(c, m) == [code |-> c, message |-> m]

\* faulty variant: a failure is reported with a zero-length message
MkErr_EmptyMessage(outcome) ==
    IF outcome = "Ok" THEN NULL
    ELSE <<datenlord_error(CodeOf(outcome), datenlord_bytes(MessageText(outcome), 0))>>

MkErr(outcome) ==
    IF outcome = "Ok" THEN NULL
    ELSE <<datenlord_error(CodeOf(outcome),
                           datenlord_bytes(MessageText(outcome),
                                           Len(MessageText(outcome))))>>

SdkResult(newfs, newlocal, outcome) ==
    [fs |-> newfs, local |-> newlocal, outcome |-> outcome, err |-> MkErr(outcome)]

-----------------------------------------------------------------------------
(* The SDK operations (datenlord.h), on a store f and the local file l      *)

IsDir(f, p) == p = <<>> \/ (p \in Paths /\ f[p].kind = "dir")

Present(f, p) == p \in Paths /\ f[p].kind # "absent"

Descendants(f, p) == {q \in Paths : q # p /\ IsPrefix(p, q) /\ Present(f, q)}

SdkExists(live, f, p) == live /\ Present(f, p)

MkdirOutcome(f, p) ==
    IF Present(f, p) THEN "AlreadyExists"
    ELSE IF ~IsDir(f, Parent(p)) THEN "IOError"
    ELSE "Ok"

SdkMkdir(f, l, p) ==
    LET o == MkdirOutcome(f, p)
    IN SdkResult(IF o = "Ok" THEN [f EXCEPT ![p] = DirNode] ELSE f, l, o)

DeldirOutcome(f, p, recursive) ==
    IF ~Present(f, p) THEN "NotFound"
    ELSE IF ~IsDir(f, p) THEN "IOError"
    ELSE IF ~recursive /\ Descendants(f, p) # {} THEN "NotEmpty"
    ELSE "Ok"

SdkDeldir(f, l, p, recursive) ==
    LET o == DeldirOutcome(f, p, recursive)
    IN SdkResult(IF o = "Ok"
                 THEN [q \in Paths |-> IF IsPrefix(p, q) THEN Absent ELSE f[q]]
                 ELSE f, l, o)

RenameOutcome(f, s, d) ==
    IF ~Present(f, s) THEN "NotFound"
    ELSE IF Present(f, d) THEN "AlreadyExists"
    ELSE IF IsPrefix(s, d) THEN "IOError"
    ELSE IF ~IsDir(f, Parent(d)) THEN "IOError"
    ELSE "Ok"

Moved(s, d, q) == s \o SubSeq(q, Len(d) + 1, Len(q))

SdkRename(f, l, s, d) ==
    LET o == RenameOutcome(f, s, d)
    IN SdkResult(IF o = "Ok"
                 THEN [q \in Paths |->
                         IF IsPrefix(d, q)
                         THEN (IF Moved(s, d, q) \in Paths THEN f[Moved(s, d, q)] ELSE Absent)
                         ELSE IF IsPrefix(s, q) THEN Absent
                         ELSE f[q]]
                 ELSE f, l, o)

CopyFromOutcome(f, l, overwrite, lp, d) ==
    IF l[lp].kind # "file" THEN "NotFound"
    ELSE IF Present(f, d) /\ ~overwrite THEN "AlreadyExists"
    ELSE IF Present(f, d) /\ f[d].kind = "dir" THEN "IOError"
    ELSE IF ~IsDir(f, Parent(d)) THEN "IOError"
    ELSE "Ok"

SdkCopyFromLocalFile(f, l, overwrite, lp, d) ==
    LET o == CopyFromOutcome(f, l, overwrite, lp, d)
    IN SdkResult(IF o = "Ok" THEN [f EXCEPT ![d] = FileNode(l[lp].data)] ELSE f, l, o)

CopyToOutcome(f, s) ==
    IF ~Present(f, s) THEN "NotFound"
    ELSE IF f[s].kind # "file" THEN "IOError"
    ELSE "Ok"

SdkCopyToLocalFile(f, l, s, lp) ==
    LET o == CopyToOutcome(f, s)
    IN SdkResult(f, IF o = "Ok" THEN [l EXCEPT ![lp] = FileNode(f[s].data)] ELSE l, o)

CreateFileOutcome(f, p) ==
    IF Present(f, p) THEN "AlreadyExists"
    ELSE IF ~IsDir(f, Parent(p)) THEN "IOError"
    ELSE "Ok"

SdkCreateFile(f, l, p) ==
    LET o == CreateFileOutcome(f, p)
    IN SdkResult(IF o = "Ok" THEN [f EXCEPT ![p] = FileNode(<<>>)] ELSE f, l, o)

WriteFileOutcome(f, p) ==
    IF ~IsDir(f, Parent(p)) THEN "NotFound"
    ELSE IF Present(f, p) /\ f[p].kind = "dir" THEN "IOError"
    ELSE "Ok"

SdkWriteFile(f, l, p, content) ==
    LET o == WriteFileOutcome(f, p)
    IN SdkResult(IF o = "Ok"
                 THEN [f EXCEPT ![p] = FileNode(SubSeq(content.data, 1, content.len))]
                 ELSE f, l, o)

Fields == {"ino", "size", "blocks", "perm", "nlink", "uid", "gid", "rdev"}

NoStat == [set |-> {}, val |-> <<>>]

UninitStat(g) == [set |-> {}, val |-> [x \in Fields |-> g]]

PathIndex(p) == IF p = Dir THEN 1 ELSE IF p = File THEN 2 ELSE 3

StatOf(f, p) ==
    [set |-> Fields,
     val |-> [x \in Fields |->
                CASE x = "ino"    -> ROOT_ID + PathIndex(p)
                  [] x = "size"   -> Len(f[p].data)
                  [] x = "blocks" -> IF Len(f[p].data) = 0 THEN 0 ELSE 1
                  [] x = "perm"   -> IF f[p].kind = "dir" THEN 7 ELSE 6
                  [] x = "nlink"  -> IF f[p].kind = "dir" THEN 2 ELSE 1
                  [] OTHER        -> 0]]

StatOutcome(f, p) == IF ~Present(f, p) THEN "NotFound" ELSE "Ok"

SdkStat(f, l, p, st) ==
    LET o == StatOutcome(f, p)
    IN [fs |-> f, local |-> l, outcome |-> o, err |-> MkErr(o),
        stat |-> IF o = "Ok" THEN StatOf(f, p) ELSE st]

ReadFileOutcome(f, p) ==
    IF ~Present(f, p) THEN "NotFound"
    ELSE IF f[p].kind # "file" THEN "IOError"
    ELSE "Ok"

Filled(buf, data, n) ==
    LET k == Min(Min(n, Len(data)), Len(buf))
    IN SubSeq(data, 1, k) \o SubSeq(buf, k + 1, Len(buf))

SdkReadFile(f, l, p, out) ==
    LET o == ReadFileOutcome(f, p)
    IN [fs |-> f, local |-> l, outcome |-> o, err |-> MkErr(o),
        out |-> IF o = "Ok"
                THEN datenlord_bytes(Filled(out.data, f[p].data, out.len), out.len)
                ELSE out]

NoSession(f, l) == SdkResult(f, l, "ConnectionError")

-----------------------------------------------------------------------------
(* bindings.cpp: handle_error and the marshalling of arguments              *)

Success == <<"S", "u", "c", "c", "e", "s", "s">>

\* faulty variant: the record is read and never freed
handle_error_NoFree(e) ==
    IF e = NULL
    THEN [str |-> Success, ev |-> <<>>]
    ELSE [str |-> SubSeq(e[1].message.data, 1, e[1].message.len), ev |-> <<"read">>]

handle_error(e) ==
    IF e = NULL
    THEN [str |-> Success, ev |-> <<>>]
    ELSE [str |-> SubSeq(e[1].message.data, 1, e[1].message.len),
          ev  |-> <<"read", "free">>]

c_str(content) == content \o <<0>>

strlen(s) == (CHOOSE i \in 1..Len(s) : s[i] = 0 /\ \A j \in 1..(i - 1) : s[j] # 0) - 1

\* faulty variant: the length is taken up to the first zero byte
ContentBytes_strlen(content) == datenlord_bytes(c_str(content), strlen(c_str(content)))

ContentBytes(content) == datenlord_bytes(c_str(content), Len(content))

Ret(kind, str, bytes, st, flag) ==
    [kind |-> kind, str |-> str, bytes |-> bytes, stat |-> st, flag |-> flag]

StatusRet(e) == Ret("str", handle_error(e).str, <<>>, NoStat, FALSE)

\* faulty variant: the error pointer is not looked at
PyStatResult_NoCheck(e, st) == Ret("dict", <<>>, <<>>, st, FALSE)

PyStatResult(e, st) ==
    IF e # NULL
    THEN Ret("raise", handle_error(e).str, <<>>, NoStat, FALSE)
    ELSE Ret("dict", <<>>, <<>>, st, FALSE)

PyReadFileResult(f, l, p, g) ==
    LET s   == SdkStat(f, l, p, UninitStat(g))
        n   == s.stat.val["size"]
        buf == [i \in 1..n |-> g]
        r   == SdkReadFile(f, l, p, datenlord_bytes(buf, n))
    IN IF s.err # NULL
       THEN [outcome |-> s.outcome, err |-> s.err,
             ret |-> Ret("raise", handle_error(s.err).str, <<>>, NoStat, FALSE),
             ev |-> handle_error(s.err).ev,
             rd |-> [called |-> FALSE, by |-> "python", statOk |-> FALSE,
                     statSize |-> 0, len |-> 0, alloc |-> 0]]
       ELSE [outcome |-> r.outcome, err |-> r.err,
             ret |-> IF r.err # NULL
                     THEN Ret("raise", handle_error(r.err).str, <<>>, NoStat, FALSE)
                     ELSE Ret("bytes", <<>>, r.out.data, NoStat, FALSE),
             ev |-> handle_error(r.err).ev,
             rd |-> [called |-> TRUE, by |-> "python", statOk |-> TRUE,
                     statSize |-> n, len |-> n, alloc |-> Len(buf)]]

-----------------------------------------------------------------------------
(* Ghost bookkeeping shared by the consumers                                *)

NoRead == [called |-> FALSE, by |-> "none", statOk |-> FALSE,
           statSize |-> 0, len |-> 0, alloc |-> 0]

NoRet == Ret("none", <<>>, <<>>, NoStat, FALSE)

Frees(ev) == Cardinality({i \in 1..Len(ev) : ev[i] = "free"})

Dropped(e, ev) == e # NULL /\ Frees(ev) = 0

NoPre == [present |-> FALSE, nonempty |-> FALSE, node |-> Absent]

NoCall == [op |-> "none", p |-> <<>>, q |-> <<>>, flag |-> FALSE, content |-> <<>>,
           outcome |-> "Ok", err |-> NULL, ret |-> NoRet, pre |-> NoPre]

Call(op, p, q, flag, content, outcome, e, ret) ==
    [op |-> op, p |-> p, q |-> q, flag |-> flag, content |-> content,
     outcome |-> outcome, err |-> e, ret |-> ret, pre |-> NoPre]

\* what the store held at the call's target before the call: whether a deldir
\* target was a non-empty directory, and the node a copy_from_local_file
\* destination held
PreOf(op, p, f) ==
    CASE op = "deldir" ->
           [NoPre EXCEPT !.present = Present(f, p),
                         !.nonempty = (Present(f, p) /\ f[p].kind = "dir"
                                       /\ Descendants(f, p) # {})]
      [] op = "copy_from_local_file" ->
           [NoPre EXCEPT !.present = Present(f, p), !.node = f[p]]
      [] OTHER -> NoPre

\* the paths a successful call brings into existence, by the call's arguments
CreatedBy(op, p, q, f) ==
    CASE op \in {"mkdir", "create_file", "write_file", "copy_from_local_file"} -> {p}
      [] op = "rename_path" ->
           {x \in Paths : IsPrefix(q, x) /\ Moved(p, q, x) \in Paths
                          /\ Present(f, Moved(p, q, x))}
      [] OTHER -> {}

\* the paths a successful call removes, by the call's arguments
RemovedBy(op, p) ==
    IF op \in {"deldir", "rename_path"} THEN {x \in Paths : IsPrefix(p, x)} ELSE {}

Record(c, newfs, newlocal, ev, r, lk) ==
    /\ fs' = newfs
    /\ local' = newlocal
    /\ last' = [c EXCEPT !.pre = PreOf(c.op, c.p, fs)]
    /\ created' = IF c.err = NULL
                  THEN (created \ RemovedBy(c.op, c.p)) \cup CreatedBy(c.op, c.p, c.q, fs)
                  ELSE created
    /\ errEv' = ev
    /\ leak' = (leak \/ lk)
    /\ rd' = r

-----------------------------------------------------------------------------
(* The Python module's functions (bindings.cpp), called on a live handle    *)

PyLive == consumer = "python" /\ sdk = "live"

Idle == UNCHANGED <<consumer, sdk, releases, pc, err, read_bytes, exists_result>>

PyInit ==
    /\ consumer = "python" /\ sdk = "none"
    /\ \E ok \in BOOLEAN :
         /\ sdk' = IF ok THEN "live" ELSE "none"
         /\ last' = Call("init", <<>>, <<>>, ok, <<>>, "Ok", NULL,
                         Ret("handle", <<>>, <<>>, NoStat, ok))
    /\ UNCHANGED <<consumer, releases, fs, local, created, errEv, leak, rd,
                   pc, err, read_bytes, exists_result>>

PyFreeSdk ==
    /\ PyLive
    /\ sdk' = "released"
    /\ releases' = releases + 1
    /\ last' = Call("free_sdk", <<>>, <<>>, FALSE, <<>>, "Ok", NULL, NoRet)
    /\ UNCHANGED <<consumer, fs, local, created, errEv, leak, rd,
                   pc, err, read_bytes, exists_result>>

\* faulty variant: the answer does not depend on the store
PyExistsResult_AlwaysTrue(live, f, p) == TRUE

PyExistsResult(live, f, p) == SdkExists(live, f, p)

PyExists ==
    /\ PyLive
    /\ \E p \in Paths :
         Record(Call("exists", p, <<>>, FALSE, <<>>, "Ok", NULL,
                     Ret("bool", <<>>, <<>>, NoStat, PyExistsResult(TRUE, fs, p))),
                fs, local, <<>>, NoRead, FALSE)
    /\ Idle

PyMkdir ==
    /\ PyLive
    /\ \E p \in Paths :
         LET r == SdkMkdir(fs, local, p)
         IN Record(Call("mkdir", p, <<>>, FALSE, <<>>, r.outcome, r.err, StatusRet(r.err)),
                   r.fs, r.local, handle_error(r.err).ev, NoRead,
                   Dropped(r.err, handle_error(r.err).ev))
    /\ Idle

\* faulty variant: the recursive flag is not passed on
PyDeldirCall_AlwaysRecursive(f, l, p, recursive) == SdkDeldir(f, l, p, TRUE)

PyDeldirCall(f, l, p, recursive) == SdkDeldir(f, l, p, recursive)

PyDeldir ==
    /\ PyLive
    /\ \E p \in Paths, recursive \in BOOLEAN :
         LET r == PyDeldirCall(fs, local, p, recursive)
         IN Record(Call("deldir", p, <<>>, recursive, <<>>, r.outcome, r.err,
                        StatusRet(r.err)),
                   r.fs, r.local, handle_error(r.err).ev, NoRead,
                   Dropped(r.err, handle_error(r.err).ev))
    /\ Idle

RenameFits(f, s, d) ==
    \A x \in Descendants(f, s) : d \o SubSeq(x, Len(s) + 1, Len(x)) \in Paths

PyRenamePath ==
    /\ PyLive
    /\ \E s \in Paths, d \in Paths :
         /\ RenameFits(fs, s, d)
         /\ LET r == SdkRename(fs, local, s, d)
            IN Record(Call("rename_path", s, d, FALSE, <<>>, r.outcome, r.err,
                           StatusRet(r.err)),
                      r.fs, r.local, handle_error(r.err).ev, NoRead,
                   Dropped(r.err, handle_error(r.err).ev))
    /\ Idle

\* faulty variant: the overwrite flag is not passed on
PyCopyFromCall_AlwaysOverwrite(f, l, overwrite, lp, d) ==
    SdkCopyFromLocalFile(f, l, TRUE, lp, d)

PyCopyFromCall(f, l, overwrite, lp, d) == SdkCopyFromLocalFile(f, l, overwrite, lp, d)

PyCopyFromLocalFile ==
    /\ PyLive
    /\ \E overwrite \in BOOLEAN, lp \in LocalPaths, d \in Paths :
         LET r == PyCopyFromCall(fs, local, overwrite, lp, d)
         IN Record(Call("copy_from_local_file", d, lp, overwrite, <<>>, r.outcome, r.err,
                        StatusRet(r.err)),
                   r.fs, r.local, handle_error(r.err).ev, NoRead,
                   Dropped(r.err, handle_error(r.err).ev))
    /\ Idle

PyCopyToLocalFile ==
    /\ PyLive
    /\ \E s \in Paths, lp \in LocalPaths :
         LET r == SdkCopyToLocalFile(fs, local, s, lp)
         IN Record(Call("copy_to_local_file", s, lp, FALSE, <<>>, r.outcome, r.err,
                        StatusRet(r.err)),
                   r.fs, r.local, handle_error(r.err).ev, NoRead,
                   Dropped(r.err, handle_error(r.err).ev))
    /\ Idle

PyCreateFile ==
    /\ PyLive
    /\ \E p \in Paths :
         LET r == SdkCreateFile(fs, local, p)
         IN Record(Call("create_file", p, <<>>, FALSE, <<>>, r.outcome, r.err,
                        StatusRet(r.err)),
                   r.fs, r.local, handle_error(r.err).ev, NoRead,
                   Dropped(r.err, handle_error(r.err).ev))
    /\ Idle

PyStat ==
    /\ PyLive
    /\ \E p \in Paths, g \in Bytes :
         LET r == SdkStat(fs, local, p, UninitStat(g))
         IN Record(Call("stat", p, <<>>, FALSE, <<>>, r.outcome, r.err,
                        PyStatResult(r.err, r.stat)),
                   r.fs, r.local, handle_error(r.err).ev, NoRead,
                   Dropped(r.err, handle_error(r.err).ev))
    /\ Idle

PyWriteFile ==
    /\ PyLive
    /\ \E p \in Paths, content \in Contents :
         LET r == SdkWriteFile(fs, local, p, ContentBytes(content))
         IN Record(Call("write_file", p, <<>>, FALSE, content, r.outcome, r.err,
                        StatusRet(r.err)),
                   r.fs, r.local, handle_error(r.err).ev, NoRead,
                   Dropped(r.err, handle_error(r.err).ev))
    /\ Idle

PyReadFile ==
    /\ PyLive
    /\ \E p \in Paths, g \in Bytes :
         LET r == PyReadFileResult(fs, local, p, g)
         IN Record(Call("read_file", p, <<>>, FALSE, <<>>, r.outcome, r.err, r.ret),
                   fs, local, r.ev, r.rd, Dropped(r.err, r.ev))
    /\ Idle

PyNext ==
    \/ PyInit
    \/ PyFreeSdk
    \/ PyExists
    \/ PyMkdir
    \/ PyDeldir
    \/ PyRenamePath
    \/ PyCopyFromLocalFile
    \/ PyCopyToLocalFile
    \/ PyCreateFile
    \/ PyStat
    \/ PyWriteFile
    \/ PyReadFile

LocalFiles == {[lp \in LocalPaths |-> n] : n \in {Absent} \cup {FileNode(c) : c \in Contents}}

InitPy ==
    /\ consumer = "python"
    /\ sdk = "none"
    /\ releases = 0
    /\ fs = EmptyFS
    /\ local \in LocalFiles
    /\ created = {}
    /\ last = NoCall
    /\ errEv = <<>>
    /\ leak = FALSE
    /\ rd = NoRead
    /\ pc = "idle"
    /\ err = NULL
    /\ read_bytes = datenlord_bytes(<<>>, 0)
    /\ exists_result = FALSE

-----------------------------------------------------------------------------
(* The C demo (test_datenlord_sdk.c): main runs the three demo functions    *)
(* against the process-wide client                                          *)

DemoContent == <<1>>

DemoWriteBytes == datenlord_bytes(c_str(DemoContent), strlen(c_str(DemoContent)))

DemoCall(r) == IF sdk = "live" THEN r ELSE NoSession(fs, local)

PrintPcs == {"init_print", "mkdir_print", "write_print", "read_print", "delete_print"}

AfterPrint(at) ==
    CASE at = "init_print"  -> "init_check"
      [] at = "mkdir_print" -> "mkdir_free"
      [] at = "write_print" -> "write_check"
      [] at = "read_print"  -> "read_check"
      [] OTHER              -> "delete_free"

DemoStep(at) == consumer = "c_demo" /\ pc = at

DemoInit ==
    /\ DemoStep("init")
    /\ \E o \in {"Ok", "ConfigError", "ConnectionError"} :
         /\ sdk' = IF o = "Ok" THEN "live" ELSE "none"
         /\ err' = MkErr(o)
         /\ last' = Call("init", <<>>, <<>>, o = "Ok", <<>>, o, MkErr(o), NoRet)
    /\ errEv' = <<>>
    /\ pc' = "init_print"
    /\ UNCHANGED <<consumer, releases, fs, local, created, leak, rd, read_bytes,
                   exists_result>>

print_error ==
    /\ consumer = "c_demo" /\ pc \in PrintPcs
    /\ errEv' = IF err # NULL THEN Append(errEv, "read") ELSE errEv
    /\ pc' = AfterPrint(pc)
    /\ UNCHANGED <<consumer, sdk, releases, fs, local, created, last, leak, rd, err,
                   read_bytes, exists_result>>

\* if (err) free(err); and the end of the demo function, where err goes out of scope
FreeIf(cond, next) ==
    /\ errEv' = IF cond THEN Append(errEv, "free") ELSE errEv
    /\ leak' = (leak \/ Dropped(err, errEv'))
    /\ err' = NULL
    /\ pc' = next
    /\ UNCHANGED <<consumer, sdk, releases, fs, local, created, last, rd, read_bytes,
                   exists_result>>

DemoInitCheck ==
    /\ DemoStep("init_check")
    /\ IF err # NULL
       THEN FreeIf(TRUE, "write")
       ELSE /\ pc' = "exists"
            /\ UNCHANGED <<consumer, sdk, releases, fs, local, created, last, errEv,
                           leak, rd, err, read_bytes, exists_result>>

DemoExists ==
    /\ DemoStep("exists")
    /\ exists_result' = SdkExists(sdk = "live", fs, Dir)
    /\ last' = Call("exists", Dir, <<>>, FALSE, <<>>, "Ok", NULL,
                    Ret("bool", <<>>, <<>>, NoStat, exists_result'))
    /\ pc' = IF exists_result' THEN "write" ELSE "mkdir"
    /\ UNCHANGED <<consumer, sdk, releases, fs, local, created, errEv, leak, rd, err,
                   read_bytes>>

DemoAssign(c, r, next, log) ==
    /\ Record(c, r.fs, r.local, <<>>, log, FALSE)
    /\ err' = r.err
    /\ pc' = next
    /\ UNCHANGED <<consumer, sdk, releases, exists_result>>

DemoMkdir ==
    /\ DemoStep("mkdir")
    /\ LET r == DemoCall(SdkMkdir(fs, local, Dir))
       IN DemoAssign(Call("mkdir", Dir, <<>>, FALSE, <<>>, r.outcome, r.err, NoRet),
                     r, "mkdir_print", rd)
    /\ UNCHANGED read_bytes

DemoMkdirFree == DemoStep("mkdir_free") /\ FreeIf(err # NULL, "write")

DemoWrite ==
    /\ DemoStep("write")
    /\ LET r == DemoCall(SdkWriteFile(fs, local, File, DemoWriteBytes))
       IN DemoAssign(Call("write_file", File, <<>>, FALSE, DemoContent, r.outcome, r.err,
                          NoRet),
                     r, "write_print", rd)
    /\ UNCHANGED read_bytes

DemoWriteCheck ==
    /\ DemoStep("write_check")
    /\ IF err # NULL
       THEN FreeIf(TRUE, "delete")
       ELSE /\ pc' = "read"
            /\ UNCHANGED <<consumer, sdk, releases, fs, local, created, last, errEv,
                           leak, rd, err, read_bytes, exists_result>>

\* read_bytes is declared without an initialiser and no stat precedes the call:
\* its len is whatever the stack held, its data points at no caller buffer
DemoRead ==
    /\ DemoStep("read")
    /\ \E n \in 0..MaxLen, got \in Contents :
         LET o == IF sdk = "live" THEN ReadFileOutcome(fs, File) ELSE "ConnectionError"
         IN /\ DemoAssign(Call("read_file", File, <<>>, FALSE, <<>>, o, MkErr(o), NoRet),
                          [fs |-> fs, local |-> local, err |-> MkErr(o)], "read_print",
                          [called |-> TRUE, by |-> "c_demo", statOk |-> FALSE,
                           statSize |-> 0, len |-> n, alloc |-> 0])
            /\ read_bytes' = IF o = "Ok" THEN datenlord_bytes(got, Len(got))
                             ELSE datenlord_bytes(<<>>, n)

DemoReadCheck == DemoStep("read_check") /\ FreeIf(err # NULL, "delete")

DemoDeleteDirectory ==
    /\ DemoStep("delete")
    /\ LET r == DemoCall(SdkDeldir(fs, local, Dir, TRUE))
       IN DemoAssign(Call("deldir", Dir, <<>>, TRUE, <<>>, r.outcome, r.err, NoRet),
                     r, "delete_print", rd)
    /\ UNCHANGED read_bytes

DemoDeleteFree == DemoStep("delete_free") /\ FreeIf(err # NULL, "done")

DemoNext ==
    \/ DemoInit
    \/ print_error
    \/ DemoInitCheck
    \/ DemoExists
    \/ DemoMkdir
    \/ DemoMkdirFree
    \/ DemoWrite
    \/ DemoWriteCheck
    \/ DemoRead
    \/ DemoReadCheck
    \/ DemoDeleteDirectory
    \/ DemoDeleteFree

DemoStores ==
    {EmptyFS, [EmptyFS EXCEPT ![Dir] = DirNode], [EmptyFS EXCEPT ![Dir] = FileNode(<<>>)]}
    \cup {[EmptyFS EXCEPT ![Dir] = DirNode, ![File] = n] :
            n \in {DirNode} \cup {FileNode(c) : c \in Contents}}

InitDemo ==
    /\ consumer = "c_demo"
    /\ sdk = "none"
    /\ releases = 0
    /\ fs \in DemoStores
    /\ local \in LocalFiles
    /\ created = {p \in Paths : Present(fs, p)}
    /\ last = NoCall
    /\ errEv = <<>>
    /\ leak = FALSE
    /\ rd = NoRead
    /\ pc = "init"
    /\ err = NULL
    /\ read_bytes = datenlord_bytes(<<>>, 0)
    /\ exists_result = FALSE

-----------------------------------------------------------------------------
(* A run is one consumer process: the Python module's caller or the C demo  *)

Init == InitPy \/ InitDemo

Next == PyNext \/ DemoNext

Spec == Init /\ [][Next]_vars

-----------------------------------------------------------------------------
(* handle_error on its own: every error record a callee could hand over      *)

MessagePool ==
    {MessageText(ErrorKinds[i]) : i \in 1..Len(ErrorKinds)}
    \cup {Success, Success \o <<"f", "u", "l">>, <<"O", "K">>}

ErrPool ==
    {NULL} \cup
    UNION {{<<datenlord_error(c, datenlord_bytes(d, n))>> :
               c \in 1..Len(ErrorKinds), n \in 0..Len(d)} : d \in MessagePool}

ApplyHandleError ==
    /\ consumer = "harness" /\ pc = "call"
    /\ last' = Call("handle_error", <<>>, <<>>, FALSE, <<>>,
                    IF err = NULL THEN "Ok" ELSE ErrorKinds[err[1].code],
                    err, StatusRet(err))
    /\ errEv' = handle_error(err).ev
    /\ leak' = Dropped(err, errEv')
    /\ pc' = "done"
    /\ UNCHANGED <<consumer, sdk, releases, fs, local, created, rd, err, read_bytes,
                   exists_result>>

InitHandleError ==
    /\ consumer = "harness"
    /\ sdk = "none"
    /\ releases = 0
    /\ fs = EmptyFS
    /\ local = [lp \in LocalPaths |-> Absent]
    /\ created = {}
    /\ last = NoCall
    /\ errEv = <<>>
    /\ leak = FALSE
    /\ rd = NoRead
    /\ pc = "call"
    /\ err \in ErrPool
    /\ read_bytes = datenlord_bytes(<<>>, 0)
    /\ exists_result = FALSE

SpecHandleError == InitHandleError /\ [][ApplyHandleError]_vars

-----------------------------------------------------------------------------
(* Properties                                                               *)

FallibleOps == {"mkdir", "deldir", "rename_path", "copy_from_local_file",
                "copy_to_local_file", "create_file", "stat", "write_file", "read_file"}

MessageOf(e) == SubSeq(e[1].message.data, 1, e[1].message.len)

ExistsNow(p) == PyExistsResult(sdk = "live", fs, p)

\* C1: for every fallible operation the returned error pointer is null exactly
\* when the operation succeeded, and a non-null record carries the code of the
\* failure and a message of at least one byte.
C1_NullIffSuccess ==
    last.op \in FallibleOps =>
        /\ (last.err = NULL) <=> (last.outcome = "Ok")
        /\ last.err # NULL =>
             /\ last.err[1].code = CodeOf(last.outcome)
             /\ last.err[1].message.len > 0
             /\ last.err[1].message.len <= Len(last.err[1].message.data)

C1_Witness ==
    /\ last.op = "rename_path"
    /\ last.err # NULL
    /\ last.err[1].message.len > 0

\* C2: a successful write_file(P, C) leaves P holding exactly C; a read_file of P,
\* its buffer sized by stat, returns exactly what P holds; and so a read_file that
\* directly follows the write returns C, with C's length, zero bytes and the empty
\* content included.
C2_RoundTrip ==
    /\ [](sdk = "live" /\ last.op = "write_file" /\ last.err = NULL
             => fs[last.p] = FileNode(last.content))
    /\ [](last.op = "read_file" /\ last.err = NULL /\ rd.statOk
             => /\ last.ret.kind = "bytes"
                /\ rd.statSize = Len(fs[last.p].data)
                /\ last.ret.bytes = fs[last.p].data)
    /\ [][(/\ last.op = "write_file" /\ last.err = NULL
            /\ last'.op = "read_file" /\ last'.p = last.p
            /\ (rd'.called => rd'.statOk))
           => (/\ last'.err = NULL
               /\ rd'.called /\ rd'.statSize = Len(last.content)
               /\ last'.ret.kind = "bytes"
               /\ Len(last'.ret.bytes) = Len(last.content)
               /\ last'.ret.bytes = last.content)]_vars

C2_Witness ==
    /\ last.op = "read_file"
    /\ last.ret.kind = "bytes"
    /\ last.ret.bytes = <<0>>
    /\ local[LocalPath].kind = "absent"

\* C3: on a live handle exists is false for every path no call has created, true
\* right after a successful mkdir, create_file or write_file of that path, and it
\* returns a plain boolean, never an error.
C3_Exists ==
    sdk = "live" =>
        /\ \A p \in Paths \ created : ~ExistsNow(p)
        /\ (last.op \in {"mkdir", "create_file", "write_file"} /\ last.err = NULL)
             => ExistsNow(last.p)
        /\ last.op = "exists" =>
             /\ last.err = NULL
             /\ last.ret.kind = "bool"
             /\ last.p \notin created => ~last.ret.flag

C3_Witness ==
    /\ consumer = "python"
    /\ last.op = "exists"
    /\ last.ret.flag
    /\ created # Paths

\* C4: deleting a non-empty directory without the recursive flag fails with
\* NotEmpty and leaves it in place; with the flag it succeeds, and the directory
\* stays gone until a call creates it again.
C4_DeleteNonEmpty ==
    sdk = "live" =>
        /\ (last.op = "deldir" /\ last.pre.nonempty) =>
             IF last.flag
             THEN last.err = NULL /\ ~ExistsNow(last.p)
             ELSE /\ last.err # NULL
                  /\ last.err[1].code = CodeOf("NotEmpty")
                  /\ ExistsNow(last.p)
        /\ \A p \in Paths : ExistsNow(p) => p \in created

C4_Witness ==
    /\ consumer = "python"
    /\ last.op = "deldir"
    /\ last.pre.nonempty
    /\ last.flag
    /\ last.err = NULL

\* C5: copying an existing local file L onto an existing remote file D fails with
\* AlreadyExists and leaves D as it was when overwrite is false, and succeeds and
\* leaves D holding L's content when overwrite is true.
C5_CopyOverwrite ==
    (/\ last.op = "copy_from_local_file"
     /\ last.pre.present /\ last.pre.node.kind = "file"
     /\ local[last.q].kind = "file")
    => IF last.flag
       THEN last.err = NULL /\ fs[last.p] = FileNode(local[last.q].data)
       ELSE /\ last.err # NULL
            /\ last.err[1].code = CodeOf("AlreadyExists")
            /\ fs[last.p] = last.pre.node

C5_Witness ==
    /\ last.op = "copy_from_local_file"
    /\ last.flag
    /\ last.pre.present /\ last.pre.node.kind = "file"
    /\ last.pre.node.data # local[last.q].data
    /\ last.err = NULL

NoUseAfterFree(ev) ==
    \A i \in 1..Len(ev), j \in 1..Len(ev) : (i < j /\ ev[i] = "free") => ev[j] # "read"

\* C6: every error record a call returns is freed exactly once by the caller that
\* received it, and its code and message are read only before that free.
C6_ErrorReleasedOnce ==
    /\ ~leak
    /\ Frees(errEv) <= 1
    /\ NoUseAfterFree(errEv)
    /\ (consumer = "python" /\ last.err # NULL) => Frees(errEv) = 1
    /\ (consumer = "c_demo" /\ pc = "done" /\ last.err # NULL) => Frees(errEv) = 1

C6_Witness ==
    /\ consumer = "python"
    /\ last.op = "read_file"
    /\ last.err # NULL
    /\ errEv = <<"read", "free">>

\* C7: every handle init creates has been passed to free_sdk, once, by the time
\* its consumer finishes.
C7_HandleReleasedOnce ==
    /\ releases <= 1
    /\ (consumer = "c_demo" /\ pc = "done") => sdk # "live"

\* C8: the stat binding returns its dict exactly when stat returned no error, and
\* then all eight fields were set by stat; otherwise it raises with the error's
\* message and hands back no field.
C8_StatAllOrNothing ==
    (consumer = "python" /\ last.op = "stat") =>
        IF last.err = NULL
        THEN last.ret.kind = "dict" /\ last.ret.stat.set = Fields
        ELSE /\ last.ret.kind = "raise"
             /\ last.ret.str = MessageOf(last.err)
             /\ last.ret.stat.set = {}

C8_Witness ==
    /\ consumer = "python"
    /\ last.op = "stat"
    /\ last.err # NULL
    /\ last.ret.kind = "raise"

\* C9: every read_file call is given a buffer of caller memory whose length is the
\* size a preceding successful stat of the same path reported.
C9_ReadPresized ==
    rd.called => (rd.statOk /\ rd.len = rd.statSize /\ rd.alloc = rd.len)

\* C10: the status string of a binding is "Success" exactly when the error pointer
\* was null, whatever code and message bytes a record carries.
C10_StatusTellsFailure ==
    last.op = "handle_error" => ((last.ret.str = Success) <=> (last.err = NULL))

=============================================================================
